---- MODULE Spec2Model ----
(***************************************************************************)
(* Model of the batch-mint orchestrator hook useMintFractionAllowlistBatch *)
(* (frontend/hooks/mintFractionAllowlistBatch.ts) and of the eligibility   *)
(* query it reads.                                                         *)
(*                                                                         *)
(* One write() invocation is followed from its synchronous prologue        *)
(* through each of its await points.  Every action is one run-to-          *)
(* completion slice of the JavaScript event loop: the code between two     *)
(* awaits runs atomically, so it is one step of the model.  The hook is    *)
(* constructed with an onComplete callback.                                *)
(***************************************************************************)
EXTENDS Integers, Sequences, FiniteSets, TLC

(* ------------------------------ bounds -------------------------------- *)

\* longest eligibility list the store answers with
MaxClaims == 2

\* most rows the eligibility table holds
MaxRows == 2

(* ------------------------- program constants -------------------------- *)

\* tx.wait(5): confirmation depth awaited before the receipt is final
Confirmations == 5

(* ------------------------------ values -------------------------------- *)

\* claim ids are strings (x.claimId as string)
ClaimIdSet == {"c1", "c2"}

\* the connected wallet address, already lower-cased; "" when no wallet
NoAddress == ""
Addresses == {"0xaa"}

\* useQuery data before the first successful fetch
Undefined == [defined |-> FALSE, list |-> <<>>]
Loaded(l) == [defined |-> TRUE, list |-> l]

\* all sequences over S of length 0..n
SeqUpTo(S, n) == UNION {[1..k -> S] : k \in 0..n}

\* step names of the contract-interaction modal
StepNames == <<"initial", "proofs", "minting", "waiting", "complete">>

(* ---- verifier results: falsy, a ClaimProof, or an array of those ----- *)

\* a falsy verifier result (undefined / null / false)
Falsy == [truthy |-> FALSE, claimIDContract |-> "", units |-> <<>>, proof |-> <<>>]

\* a ClaimProof; units is a decimal numeral, most significant digit first
ClaimProofOf(c, u, p) == [truthy |-> TRUE, claimIDContract |-> c, units |-> u, proof |-> p]
P1 == ClaimProofOf("c1", <<5>>, <<"h1">>)
P2 == ClaimProofOf("c2", <<1, 0>>, <<"h2", "h3">>)
P3 == ClaimProofOf("c1", <<1, 0>>, <<"h1">>)
ClaimProofs == {P1, P2, P3}

\* what one verifyFractionClaim promise can fulfil with: a single value, or
\* an array of values (results.flat() flattens one level)
Single(x) == [settled |-> TRUE, isArray |-> FALSE, items |-> <<x>>]
Array(xs) == [settled |-> TRUE, isArray |-> TRUE, items |-> xs]
Pending == [settled |-> FALSE, isArray |-> FALSE, items |-> <<>>]
VerifierValues == {Single(Falsy), Single(P1), Single(P2), Single(P3), Array(<<P1, P2>>)}

(* ------------------------- pure helpers ------------------------------- *)

\* results.flat(): concatenate the items of each result, in order
RECURSIVE Flat(_)
Flat(rs) == IF rs = <<>> THEN <<>> ELSE Head(rs).items \o Flat(Tail(rs))

\* mutant of FilterTruthy: the filter is forgotten
FilterTruthy_KeepsAll(xs) == xs

\* .filter((x) => x): keep the truthy items, in order
RECURSIVE FilterTruthy(_)
FilterTruthy(xs) ==
    IF xs = <<>> THEN <<>>
    ELSE IF Head(xs).truthy THEN <<Head(xs)>> \o FilterTruthy(Tail(xs))
    ELSE FilterTruthy(Tail(xs))

\* _.isEqual on ClaimProof values: deep structural equality
IsEqual(a, b) ==
    /\ a.claimIDContract = b.claimIDContract
    /\ a.units = b.units
    /\ a.proof = b.proof

\* _.uniqWith(xs, _.isEqual): keep the first occurrence of each value
RECURSIVE UniqInto(_, _)
UniqInto(acc, xs) ==
    IF xs = <<>> THEN acc
    ELSE IF \E i \in 1..Len(acc) : IsEqual(acc[i], Head(xs))
         THEN UniqInto(acc, Tail(xs))
         ELSE UniqInto(Append(acc, Head(xs)), Tail(xs))

\* mutant of UniqWith: only neighbouring duplicates are dropped
RECURSIVE UniqWith_AdjacentOnly(_)
UniqWith_AdjacentOnly(xs) ==
    IF Len(xs) < 2 THEN xs
    ELSE IF IsEqual(xs[1], xs[2]) THEN UniqWith_AdjacentOnly(Tail(xs))
    ELSE <<Head(xs)>> \o UniqWith_AdjacentOnly(Tail(xs))

UniqWith(xs) == UniqInto(<<>>, xs)

\* BigInt(units): value of a decimal numeral
RECURSIVE BigIntFrom(_, _)
BigIntFrom(acc, ds) ==
    IF ds = <<>> THEN acc ELSE BigIntFrom(10 * acc + Head(ds), Tail(ds))

BigInt(ds) == BigIntFrom(0, ds)

\* unique.map((claimProof) => claimProof.claimIDContract)
MapClaimIDs(unique_) == [i \in 1..Len(unique_) |-> unique_[i].claimIDContract]
\* unique.map((claimProof) => BigInt(claimProof.units))
MapUnits(unique_) == [i \in 1..Len(unique_) |-> BigInt(unique_[i].units)]
\* unique.map((claimProof) => claimProof.proof)
MapProofs(unique_) == [i \in 1..Len(unique_) |-> unique_[i].proof]

(* ------------------------------ state --------------------------------- *)

VARIABLES
    address,     \* useAccountLowerCase().address ("" when not connected)
    claimIds,    \* useGetAllEligibility(address).data
    step,        \* the modal's current step (setStep)
    modalOpen,   \* showModal / hideModal
    txPending,   \* useState(false)
    pc,          \* where the current write() invocation stands
    candidates,  \* claimIds as read by the running invocation
    results,     \* one slot per verifyFractionClaim promise
    unique,      \* local unique of initializeWrite
    claimIDs,    \* first argument handed to the mint call
    units,       \* second argument handed to the mint call
    proofs,      \* third argument handed to the mint call
    receipt,     \* <<>> or <<status>> once tx.wait returned
    thrown,      \* which call threw in this invocation ("none" if none)
    stepLog,     \* the setStep calls of this invocation, in order
    calls,       \* how often this invocation called each collaborator
    storeError,  \* the last store read of the current query key failed
    prev,        \* how the invocation before the current one ended
    table,       \* the rows of the eligibility table
    bg           \* an earlier write() invocation still running beside pc

hookVars == <<address, claimIds, storeError>>
localVars == <<candidates, results, unique, claimIDs, units, proofs, receipt>>

NoCalls == [verify |-> 0, mint |-> 0, wait |-> 0, confirmations |-> 0,
            onComplete |-> 0, toastError |-> 0, toastSuccess |-> 0,
            showModal |-> 0, hideModal |-> 0]

(* ------------------- the Hyperboard contracts: storage ---------------- *)

VARIABLES
    variant,                  \* which of the two Hyperboard contracts this is
    owner,                    \* Ownable: the contract owner
    owners,                   \* ERC721: token id -> owner, ZeroAddress if not minted
    tokenURIs,                \* ERC721URIStorage: token id -> metadata
    allowListedCertsMapping,  \* token id -> claim ids / certificate addresses
    certClaimIds,             \* token id -> certificate address -> claim ids
    consentBasedCertsMapping, \* token id -> claim ids that gave consent
    tokenWalletMapping,       \* token id -> ERC-6551 account
    counter,                  \* the next token id
    subgraphEndpoint,
    baseUri,
    walletImpl,
    erc6551Registry,
    hypercertMinter,
    etherHeld,                \* ether the contract address holds
    erc20Held,                \* its balance of the ERC-20 token withdrawn
    hypercertOwnerOf,         \* minter -> claim id -> owner, as the minters report
    last,                     \* the last call: function, revert error, events
    mintLog                   \* the token ids successful mints returned, in order

tokenVars == <<owners, tokenURIs, allowListedCertsMapping, certClaimIds,
               consentBasedCertsMapping, tokenWalletMapping, counter>>
adminVars == <<owner, subgraphEndpoint, baseUri, walletImpl, erc6551Registry,
               hypercertMinter, etherHeld, erc20Held>>
envVars == <<variant, hypercertOwnerOf>>
boardVars == <<tokenVars, adminVars, envVars, last, mintLog>>

\* the two contracts named Hyperboard: the one with consent lists and the
\* one with an allowlist per certificate contract
Variants == {"consent", "percert"}

MaxTokens == 2
MaxConsents == 2
MaxFunds == 1

\* token ids: those that can be minted and the one after them
TokenIds == 0..MaxTokens

ZeroAddress == "0x0"
Accounts == {"alice", "bob"}
Deployer == "alice"

\* what ECDSA.recover yields for a signature made over another digest
Stranger == "0xdead"

HypercertClaims == {1, 2}
Minters == {"minterA", "minterB"}
CertAddresses == {"certA", "certB"}
Endpoints == {"e0", "e1"}
BaseUris == {"b0", "b1"}
WalletImpls == {"w0", "w1"}
Registries == {"r0", "r1"}

NoEvents == <<>>

\* the ERC-6551 account the registry creates for a token id
Wallet(tokenId) == <<"wallet", tokenId>>

\* storage after construction.  The consent variant's constructor stores
\* its arguments and emits three events, the deployer is the owner.  The
\* other variant never runs __Ownable_init: its owner is the zero address.
BoardDeployed(v) ==
    /\ variant = v
    /\ owner = IF v = "consent" THEN Deployer ELSE ZeroAddress
    /\ owners = [t \in TokenIds |-> ZeroAddress]
    /\ tokenURIs = [t \in TokenIds |-> ""]
    /\ allowListedCertsMapping = [t \in TokenIds |-> <<>>]
    /\ certClaimIds = [t \in TokenIds |-> [a \in CertAddresses |-> <<>>]]
    /\ consentBasedCertsMapping = [t \in TokenIds |-> <<>>]
    /\ tokenWalletMapping = [t \in TokenIds |-> ZeroAddress]
    /\ counter = 0
    /\ subgraphEndpoint = "e0"
    /\ baseUri = "b0"
    /\ walletImpl = "w0"
    /\ erc6551Registry = "r0"
    /\ hypercertMinter = "minterA"
    /\ etherHeld = 0
    /\ erc20Held = 0
    /\ hypercertOwnerOf = [m \in Minters |->
                              IF m = "minterA" THEN (1 :> "alice" @@ 2 :> "bob")
                              ELSE (1 :> "bob" @@ 2 :> "bob")]
    /\ last = [fn |-> "constructor", err |-> "none",
               events |-> IF v = "consent"
                          THEN << <<"HypercertMinterUpdated", "minterA">>,
                                  <<"SubgraphUpdated", "e0">>,
                                  <<"BaseUriUpdated", "b0">> >>
                          ELSE NoEvents]
    /\ mintLog = <<>>

HookInit ==
    /\ address = NoAddress
    /\ claimIds = Undefined
    /\ step = "none"
    /\ modalOpen = FALSE
    /\ txPending = FALSE
    /\ pc = "idle"
    /\ candidates = <<>>
    /\ results = <<>>
    /\ unique = <<>>
    /\ claimIDs = <<>>
    /\ units = <<>>
    /\ proofs = <<>>
    /\ receipt = <<>>
    /\ thrown = "none"
    /\ stepLog = <<>>
    /\ calls = NoCalls
    /\ storeError = FALSE
    /\ prev = "none"
    /\ bg = "idle"

\* the hook as mounted, the store not looked into
Init ==
    /\ HookInit
    /\ table = <<>>
    /\ BoardDeployed("consent")

(* --------------------------- hook inputs ------------------------------ *)

\* the wallet connects, disconnects or switches account: the query key
\* changes, so the query data is undefined until the next fetch
AccountChanges ==
    \E a \in Addresses \cup {NoAddress} :
        /\ a # address
        /\ address' = a
        /\ claimIds' = Undefined
        /\ storeError' = FALSE
        /\ UNCHANGED <<step, modalOpen, txPending, pc, localVars, thrown, stepLog, calls>>

\* a row of the eligibility table
Row(a, c, h) == [address |-> a, claimId |-> c, hidden |-> h]

\* what the store answers to .eq("address", a).eq("hidden", false)
Responses(a) == SeqUpTo({Row(a, c, FALSE) : c \in ClaimIdSet}, MaxClaims)

\* data?.map((x) => x.claimId) ?? [], data being null on an error
QueryResult(data, error) ==
    IF error THEN <<>> ELSE [i \in 1..Len(data) |-> data[i].claimId]

\* mutant of QueryDelivers: a store error makes the query fail, the data
\* stays what it was
QueryDelivers_FailsOnError(data, error) ==
    /\ claimIds' = IF error THEN claimIds ELSE Loaded(QueryResult(data, error))
    /\ storeError' = error
    /\ UNCHANGED <<address, step, modalOpen, txPending, pc, localVars, thrown, stepLog, calls>>

\* the query function got its answer from the store and returned: the
\* error, if any, is logged and the claim ids become the query data
QueryDelivers(data, error) ==
    /\ claimIds' = Loaded(QueryResult(data, error))
    /\ storeError' = error
    /\ UNCHANGED <<address, step, modalOpen, txPending, pc, localVars, thrown, stepLog, calls>>

\* mutant of EligibilityQuery: the enabled option is missing
EligibilityQuery_AlwaysEnabled ==
    \/ \E data \in Responses(address) : QueryDelivers(data, FALSE)
    \/ QueryDelivers(<<>>, TRUE)

\* the query function of useGetAllEligibility ran (first fetch or a poll)
\* and its result was delivered; enabled only with an address.  The store
\* answers with rows, or with an error and no rows.
EligibilityQuery ==
    /\ address # NoAddress
    /\ \/ \E data \in Responses(address) : QueryDelivers(data, FALSE)
       \/ QueryDelivers(<<>>, TRUE)

(* ------------------------ write / initializeWrite --------------------- *)

\* mutant of Precondition: the claim-id guard is missing
Precondition_SkipsClaimIdsCheck(address_, claimIds_) ==
    IF address_ = NoAddress THEN "No address found for current user" ELSE "ok"

\* the guards of initializeWrite: "ok", or the error it throws
Precondition(address_, claimIds_) ==
    IF address_ = NoAddress THEN "No address found for current user"
    ELSE IF ~claimIds_.defined THEN "No claim ids found for the current user"
    ELSE "ok"

\* write(): showModal, setStep("initial"), then initializeWrite up to its
\* first await: the guards, setStep("proofs"), hideModal on an empty list,
\* and one verifyFractionClaim call per claim id
StartWrite ==
    /\ LET pre == Precondition(address, claimIds)
           shown == [NoCalls EXCEPT !.showModal = 1]
       IN IF pre # "ok"
          THEN /\ pc' = "rejected"
               /\ thrown' = pre
               /\ step' = "initial"
               /\ stepLog' = <<"initial">>
               /\ modalOpen' = TRUE
               /\ calls' = shown
               /\ candidates' = <<>>
               /\ results' = <<>>
          ELSE /\ pc' = "proofs"
               /\ thrown' = "none"
               /\ step' = "proofs"
               /\ stepLog' = <<"initial", "proofs">>
               /\ modalOpen' = (Len(claimIds.list) # 0)
               /\ calls' = [shown EXCEPT
                              !.hideModal = IF Len(claimIds.list) = 0 THEN 1 ELSE 0,
                              !.verify = Len(claimIds.list)]
               /\ candidates' = claimIds.list
               /\ results' = [k \in 1..Len(claimIds.list) |-> Pending]
    /\ unique' = <<>>
    /\ claimIDs' = <<>>
    /\ units' = <<>>
    /\ proofs' = <<>>
    /\ receipt' = <<>>
    /\ prev' = pc
    /\ UNCHANGED <<hookVars, txPending>>

\* mutant of Write: after a failed verification the invocation resumes
\* with the proofs it already has instead of starting over
Write_ResumesAfterFailure ==
    /\ pc \in {"idle", "resolved", "rejected"}
    /\ IF thrown = "verifyFractionClaim"
       THEN /\ pc' = "proofs"
            /\ thrown' = "none"
            /\ prev' = pc
            /\ modalOpen' = TRUE
            /\ UNCHANGED <<hookVars, txPending, step, stepLog, calls, localVars>>
       ELSE StartWrite

\* write() as the user can invoke it here: one invocation at a time
Write ==
    /\ pc \in {"idle", "resolved", "rejected"}
    /\ StartWrite

\* one verifyFractionClaim promise fulfils; Promise.all keeps its value at
\* the position of its claim id
VerifierFulfils ==
    /\ pc = "proofs"
    /\ \E k \in 1..Len(results), v \in VerifierValues :
           /\ ~results[k].settled
           /\ results' = [results EXCEPT ![k] = v]
    /\ UNCHANGED <<hookVars, step, modalOpen, txPending, pc, candidates, unique,
                   claimIDs, units, proofs, receipt, thrown, stepLog, calls>>

\* one verifyFractionClaim promise rejects: Promise.all rejects at once, the
\* await throws outside the try block and write() rejects
VerifierRejects ==
    /\ pc = "proofs"
    /\ \E k \in 1..Len(results) : ~results[k].settled
    /\ pc' = "rejected"
    /\ thrown' = "verifyFractionClaim"
    /\ UNCHANGED <<hookVars, step, modalOpen, txPending, localVars, stepLog, calls>>

\* Promise.all resolved: flatten, filter, deduplicate, build the three
\* arguments, setStep("minting"), setTxPending(true), call the mint function
SubmitMint ==
    /\ pc = "proofs"
    /\ \A k \in 1..Len(results) : results[k].settled
    /\ LET verified == FilterTruthy(Flat(results))
           unique_ == UniqWith(verified)
       IN /\ unique' = unique_
          /\ claimIDs' = MapClaimIDs(unique_)
          /\ units' = MapUnits(unique_)
          /\ proofs' = MapProofs(unique_)
    /\ step' = "minting"
    /\ stepLog' = Append(stepLog, "minting")
    /\ txPending' = TRUE
    /\ calls' = [calls EXCEPT !.mint = @ + 1]
    /\ pc' = "minting"
    /\ UNCHANGED <<hookVars, modalOpen, candidates, results, receipt, thrown>>

\* mutant of MintReturns: setStep("waiting") is missing
MintReturns_SkipsWaiting ==
    /\ pc = "minting"
    /\ calls' = [calls EXCEPT !.wait = @ + 1, !.confirmations = Confirmations]
    /\ pc' = "waiting"
    /\ UNCHANGED <<hookVars, step, stepLog, modalOpen, txPending, localVars, thrown>>

\* the mint call returned a transaction: setStep("waiting"), tx.wait(5)
MintReturns ==
    /\ pc = "minting"
    /\ step' = "waiting"
    /\ stepLog' = Append(stepLog, "waiting")
    /\ calls' = [calls EXCEPT !.wait = @ + 1, !.confirmations = Confirmations]
    /\ pc' = "waiting"
    /\ UNCHANGED <<hookVars, modalOpen, txPending, localVars, thrown>>

\* mutant of Caught: the flag is cleared on the success path only, not in
\* a finally block
Caught_WithoutFinally(by) ==
    /\ thrown' = by
    /\ calls' = [calls EXCEPT !.toastError = @ + 1]
    /\ txPending' = txPending
    /\ pc' = "resolved"

\* catch (error) { toast(parseError(...), error) } finally { setTxPending(false) }
Caught(by) ==
    /\ thrown' = by
    /\ calls' = [calls EXCEPT !.toastError = @ + 1]
    /\ txPending' = FALSE
    /\ pc' = "resolved"

\* mutant of MintThrows: the mint call sits outside the try block
MintThrows_Propagates ==
    /\ pc = "minting"
    /\ thrown' = "batchMintClaimFractionsFromAllowlists"
    /\ pc' = "rejected"
    /\ UNCHANGED <<hookVars, step, modalOpen, txPending, localVars, stepLog, calls>>

\* the mint call threw (user rejected, revert on estimate, network error)
MintThrows ==
    /\ pc = "minting"
    /\ Caught("batchMintClaimFractionsFromAllowlists")
    /\ UNCHANGED <<hookVars, step, modalOpen, localVars, stepLog>>

\* mutant of WaitThrows: the catch block submits the batch again
WaitThrows_Resubmits ==
    /\ pc = "waiting"
    /\ thrown' = "wait"
    /\ calls' = [calls EXCEPT !.toastError = @ + 1, !.mint = @ + 1]
    /\ pc' = "minting"
    /\ UNCHANGED <<hookVars, step, modalOpen, txPending, localVars, stepLog>>

\* tx.wait threw
WaitThrows ==
    /\ pc = "waiting"
    /\ Caught("wait")
    /\ UNCHANGED <<hookVars, step, modalOpen, localVars, stepLog>>

\* mutant of ReceiptFailed: the callback runs whatever the status
ReceiptFailed_CallsOnComplete ==
    /\ pc = "waiting"
    /\ receipt' = <<0>>
    /\ calls' = [calls EXCEPT !.toastError = @ + 1, !.onComplete = @ + 1]
    /\ txPending' = FALSE
    /\ pc' = "resolved"
    /\ UNCHANGED <<hookVars, step, modalOpen, candidates, results, unique, claimIDs,
                   units, proofs, thrown, stepLog>>

\* tx.wait returned a receipt with status 0: error toast, then finally
ReceiptFailed ==
    /\ pc = "waiting"
    /\ receipt' = <<0>>
    /\ calls' = [calls EXCEPT !.toastError = @ + 1]
    /\ txPending' = FALSE
    /\ pc' = "resolved"
    /\ UNCHANGED <<hookVars, step, modalOpen, candidates, results, unique, claimIDs,
                   units, proofs, thrown, stepLog>>

\* tx.wait returned a receipt with status 1: success toast,
\* setStep("complete"), onComplete(); the callback may itself throw, which
\* the catch block reports; then finally
ReceiptSucceeded ==
    /\ pc = "waiting"
    /\ receipt' = <<1>>
    /\ step' = "complete"
    /\ stepLog' = Append(stepLog, "complete")
    /\ \E callbackThrows \in BOOLEAN :
           /\ thrown' = IF callbackThrows THEN "onComplete" ELSE "none"
           /\ calls' = [calls EXCEPT !.toastSuccess = @ + 1,
                                     !.onComplete = @ + 1,
                                     !.toastError = IF callbackThrows THEN @ + 1 ELSE @]
    /\ txPending' = FALSE
    /\ pc' = "resolved"
    /\ UNCHANGED <<hookVars, modalOpen, candidates, results, unique, claimIDs,
                   units, proofs>>

\* everything the hook's own steps leave alone
storeVars == <<table>>
overlapVars == <<bg>>
outsideVars == <<storeVars, overlapVars, boardVars>>

vars == <<address, claimIds, step, modalOpen, txPending, pc, candidates, results,
          unique, claimIDs, units, proofs, receipt, thrown, stepLog, calls,
          storeError, prev, outsideVars>>

\* one write() invocation at a time, the store seen through its answers
Next ==
    \/ AccountChanges /\ UNCHANGED <<prev, outsideVars>>
    \/ EligibilityQuery /\ UNCHANGED <<prev, outsideVars>>
    \/ Write /\ UNCHANGED outsideVars
    \/ VerifierFulfils /\ UNCHANGED <<prev, outsideVars>>
    \/ VerifierRejects /\ UNCHANGED <<prev, outsideVars>>
    \/ SubmitMint /\ UNCHANGED <<prev, outsideVars>>
    \/ MintReturns /\ UNCHANGED <<prev, outsideVars>>
    \/ MintThrows /\ UNCHANGED <<prev, outsideVars>>
    \/ WaitThrows /\ UNCHANGED <<prev, outsideVars>>
    \/ ReceiptFailed /\ UNCHANGED <<prev, outsideVars>>
    \/ ReceiptSucceeded /\ UNCHANGED <<prev, outsideVars>>

Spec == Init /\ [][Next]_vars

(* ------------------- the eligibility table, read --------------------- *)

\* String.prototype.toLowerCase on the addresses used here
ToLowerCase(a) ==
    CASE a = "0xAA" -> "0xaa"
      [] a = "0xBB" -> "0xbb"
      [] OTHER -> a

\* addresses found in the table's rows: the connected wallet's and others'
RowAddresses == {"0xaa", "0xbb"}

\* the tables the store may hold
Tables == SeqUpTo({Row(a, c, h) : a \in RowAddresses, c \in ClaimIdSet, h \in BOOLEAN},
                  MaxRows)

\* mutant of Select: the hidden filter is missing
Select_IgnoresHidden(t, a, h) == SelectSeq(t, LAMBDA r : r.address = a)

\* .from(SUPABASE_TABLE).select("*").eq("address", a).eq("hidden", h)
Select(t, a, h) == SelectSeq(t, LAMBDA r : r.address = a /\ r.hidden = h)

\* the query function of useGetAllEligibility, the store's answer taken
\* from the table; the read itself may fail
StoreRead ==
    /\ address # NoAddress
    /\ \/ QueryDelivers(Select(table, ToLowerCase(address), FALSE), FALSE)
       \/ QueryDelivers(<<>>, TRUE)

\* the proof verifier as the specification describes it: asked for a claim
\* id, it answers with nothing or with a ClaimProof of that claim id
VerifierAnswers ==
    /\ pc = "proofs"
    /\ \E k \in 1..Len(results) :
           /\ ~results[k].settled
           /\ \E v \in {Falsy} \cup {p \in ClaimProofs : p.claimIDContract = candidates[k]} :
                  results' = [results EXCEPT ![k] = Single(v)]
    /\ UNCHANGED <<hookVars, step, modalOpen, txPending, pc, candidates, unique,
                   claimIDs, units, proofs, receipt, thrown, stepLog, calls>>

InitQuery ==
    /\ HookInit
    /\ table \in Tables
    /\ BoardDeployed("consent")

NextQuery ==
    \/ AccountChanges /\ UNCHANGED <<prev, outsideVars>>
    \/ StoreRead /\ UNCHANGED <<prev, outsideVars>>
    \/ Write /\ UNCHANGED outsideVars
    \/ VerifierAnswers /\ UNCHANGED <<prev, outsideVars>>
    \/ SubmitMint /\ UNCHANGED <<prev, outsideVars>>

\* the hook over a table that is given once and read by every poll
SpecQuery == InitQuery /\ [][NextQuery]_vars

(* ---------------- overlapping invocations, the UI gate ---------------- *)

\* what a background step leaves alone: everything but step, txPending, bg
bgFrame == <<hookVars, modalOpen, pc, localVars, thrown, stepLog, calls, prev,
            storeVars, boardVars>>

\* write() behind the UI gate: invoked only while txPending is false.  The
\* flag is still false while an invocation verifies proofs (it is set at
\* line 70), so an invocation in flight may be overtaken; it runs on as bg,
\* and the variables of the invocation followed are those of the new one.
WriteGated ==
    /\ txPending = FALSE
    /\ \/ pc \in {"idle", "resolved", "rejected"} /\ bg' = bg
       \/ pc \in {"proofs", "minting", "waiting"} /\ bg = "idle" /\ bg' = pc
    /\ StartWrite
    /\ UNCHANGED <<storeVars, boardVars>>

\* the earlier invocation: Promise.all resolved, setStep("minting"),
\* setTxPending(true), the mint call
BgSubmitMint ==
    /\ bg = "proofs"
    /\ bg' = "minting"
    /\ step' = "minting"
    /\ txPending' = TRUE
    /\ UNCHANGED bgFrame

\* the earlier invocation: a verifier rejected, the invocation is over
BgVerifierRejects ==
    /\ bg = "proofs"
    /\ bg' = "idle"
    /\ UNCHANGED <<step, txPending, bgFrame>>

\* the earlier invocation: the mint call returned, setStep("waiting")
BgMintReturns ==
    /\ bg = "minting"
    /\ bg' = "waiting"
    /\ step' = "waiting"
    /\ UNCHANGED <<txPending, bgFrame>>

\* the earlier invocation: the mint call or tx.wait threw; catch, finally
BgThrows ==
    /\ bg \in {"minting", "waiting"}
    /\ bg' = "idle"
    /\ txPending' = FALSE
    /\ UNCHANGED <<step, bgFrame>>

\* the earlier invocation: the receipt arrived; setStep("complete") on
\* status 1, then finally
BgReceipt ==
    /\ bg = "waiting"
    /\ \E status \in {0, 1} : step' = IF status = 1 THEN "complete" ELSE step
    /\ bg' = "idle"
    /\ txPending' = FALSE
    /\ UNCHANGED bgFrame

NextGated ==
    \/ AccountChanges /\ UNCHANGED <<prev, outsideVars>>
    \/ EligibilityQuery /\ UNCHANGED <<prev, outsideVars>>
    \/ WriteGated
    \/ VerifierFulfils /\ UNCHANGED <<prev, outsideVars>>
    \/ VerifierRejects /\ UNCHANGED <<prev, outsideVars>>
    \/ SubmitMint /\ UNCHANGED <<prev, outsideVars>>
    \/ MintReturns /\ UNCHANGED <<prev, outsideVars>>
    \/ MintThrows /\ UNCHANGED <<prev, outsideVars>>
    \/ WaitThrows /\ UNCHANGED <<prev, outsideVars>>
    \/ ReceiptFailed /\ UNCHANGED <<prev, outsideVars>>
    \/ ReceiptSucceeded /\ UNCHANGED <<prev, outsideVars>>
    \/ BgSubmitMint
    \/ BgVerifierRejects
    \/ BgMintReturns
    \/ BgThrows
    \/ BgReceipt

\* the hook with write() invoked whenever the gate allows it
SpecGated == Init /\ [][NextGated]_vars

(* ------------------- the Hyperboard contracts: calls ------------------ *)

\* everything of the hook, which no contract call touches
hookState == <<address, claimIds, step, modalOpen, txPending, pc, localVars, thrown,
               stepLog, calls, storeError, prev, storeVars, overlapVars>>

\* what mint and updateHyperboad of the consent variant are called with
BoardInputs == {[list |-> <<1>>, metadata |-> "m1"],
                [list |-> <<2, 1>>, metadata |-> "m2"]}

\* what mint and updateAllowListedCerts of the other variant are called
\* with: certificate addresses and one claim-id list per address; the
\* third has arrays of different lengths
CertInputs == {[certs |-> <<"certA">>, ids |-> << <<1>> >>],
               [certs |-> <<"certB">>, ids |-> << <<2>> >>],
               [certs |-> <<"certA">>, ids |-> <<>>]}

\* the contract's storage, as a call finds it
Storage ==
    [owner |-> owner, owners |-> owners, tokenURIs |-> tokenURIs,
     allowListedCertsMapping |-> allowListedCertsMapping,
     certClaimIds |-> certClaimIds,
     consentBasedCertsMapping |-> consentBasedCertsMapping,
     tokenWalletMapping |-> tokenWalletMapping, counter |-> counter,
     subgraphEndpoint |-> subgraphEndpoint, baseUri |-> baseUri,
     walletImpl |-> walletImpl, erc6551Registry |-> erc6551Registry,
     hypercertMinter |-> hypercertMinter, etherHeld |-> etherHeld,
     erc20Held |-> erc20Held]

\* the call reverted: storage as it was, no event
Reverted(err) == [err |-> err, events |-> NoEvents, store |-> Storage]

\* the call returned, having emitted events and left storage as store
Returned(events, store) == [err |-> "none", events |-> events, store |-> store]

\* mint returned tokenId
ReturnedId(tokenId, events, store) ==
    [err |-> "none", events |-> events, store |-> store, tokenId |-> tokenId]

\* the outcome of a call or of a construction becomes the contract's state
Mined(fn, out) ==
    /\ last' = [fn |-> fn, err |-> out.err, events |-> out.events]
    /\ owner' = out.store.owner
    /\ owners' = out.store.owners
    /\ tokenURIs' = out.store.tokenURIs
    /\ allowListedCertsMapping' = out.store.allowListedCertsMapping
    /\ certClaimIds' = out.store.certClaimIds
    /\ consentBasedCertsMapping' = out.store.consentBasedCertsMapping
    /\ tokenWalletMapping' = out.store.tokenWalletMapping
    /\ counter' = out.store.counter
    /\ subgraphEndpoint' = out.store.subgraphEndpoint
    /\ baseUri' = out.store.baseUri
    /\ walletImpl' = out.store.walletImpl
    /\ erc6551Registry' = out.store.erc6551Registry
    /\ hypercertMinter' = out.store.hypercertMinter
    /\ etherHeld' = out.store.etherHeld
    /\ erc20Held' = out.store.erc20Held
    /\ mintLog' = IF fn = "mint" /\ out.err = "none"
                  THEN Append(mintLog, out.tokenId) ELSE mintLog

\* the transaction of a call is mined: its outcome becomes the state
Apply(fn, out) ==
    /\ Mined(fn, out)
    /\ UNCHANGED <<hookState, envVars>>

\* ERC721.ownerOf reverts for a token id that was not minted
Minted(tokenId) == owners[tokenId] # ZeroAddress

\* mutant of TokenOwnerIs: the comparison with msg.sender is missing
TokenOwnerIs_AnyCaller(tokenId, sender) == TRUE

\* ownerOf(tokenId) == msg.sender
TokenOwnerIs(tokenId, sender) == owners[tokenId] = sender

\* mutant of ConsentMintCall: _counter.increment() is missing
ConsentMintCall_CounterStays(to, arg) ==
    IF to = ZeroAddress THEN Reverted("ZeroAddress")
    ELSE ReturnedId(counter, << <<"Mint", to, counter, arg.metadata>> >>,
                    [Storage EXCEPT !.owners[counter] = to,
                                    !.tokenURIs[counter] = arg.metadata,
                                    !.allowListedCertsMapping[counter] = arg.list])

\* consent variant, mint(to, allowlistedClaimIds_, metadata_)
ConsentMintCall(to, arg) ==
    IF to = ZeroAddress THEN Reverted("ZeroAddress")
    ELSE LET tokenId == counter
         IN ReturnedId(tokenId, << <<"Mint", to, tokenId, arg.metadata>> >>,
                       [Storage EXCEPT !.owners[tokenId] = to,
                                       !.tokenURIs[tokenId] = arg.metadata,
                                       !.allowListedCertsMapping[tokenId] = arg.list,
                                       !.counter = counter + 1])

ConsentMint(to, arg) ==
    /\ variant = "consent"
    /\ counter < MaxTokens
    /\ Apply("mint", ConsentMintCall(to, arg))

\* mutant of UpdateHyperboadCall: a new allowlist discards the consents given
UpdateHyperboadCall_ResetsConsent(sender, tokenId_, arg) ==
    IF ~Minted(tokenId_) THEN Reverted("ERC721: invalid token ID")
    ELSE IF ~TokenOwnerIs(tokenId_, sender) THEN Reverted("NotApprovedOrOwner")
    ELSE Returned(NoEvents,
                  [Storage EXCEPT !.tokenURIs[tokenId_] = arg.metadata,
                                  !.allowListedCertsMapping[tokenId_] = arg.list,
                                  !.consentBasedCertsMapping[tokenId_] = <<>>])

\* consent variant, updateHyperboad(tokenId_, allowlistedClaimIds_, metadata_)
UpdateHyperboadCall(sender, tokenId_, arg) ==
    IF ~Minted(tokenId_) THEN Reverted("ERC721: invalid token ID")
    ELSE IF ~TokenOwnerIs(tokenId_, sender) THEN Reverted("NotApprovedOrOwner")
    ELSE Returned(NoEvents,
                  [Storage EXCEPT !.tokenURIs[tokenId_] = arg.metadata,
                                  !.allowListedCertsMapping[tokenId_] = arg.list])

UpdateHyperboad(sender, tokenId_, arg) ==
    /\ variant = "consent"
    /\ Apply("updateHyperboad", UpdateHyperboadCall(sender, tokenId_, arg))

\* the loop of _setAllowlist: claim ids stored under each address in turn
RECURSIVE WriteClaimIds(_, _, _, _)
WriteClaimIds(m, certs, ids, i) ==
    IF i > Len(certs) THEN m
    ELSE WriteClaimIds([m EXCEPT ![certs[i]] = ids[i]], certs, ids, i + 1)

\* per-certificate variant, _setAllowlist past its length check: the
\* addresses go to the token id given, the claim ids to the token id the
\* counter stands at
SetAllowlist(tokenId, arg) ==
    [Storage EXCEPT !.allowListedCertsMapping[tokenId] = arg.certs,
                    !.certClaimIds[counter] = WriteClaimIds(@, arg.certs, arg.ids, 1)]

\* mutant of CertMintCall: the zero address is checked before the lengths
CertMintCall_ZeroAddressFirst(to, arg) ==
    IF to = ZeroAddress THEN Reverted("ZeroAddress")
    ELSE IF Len(arg.certs) # Len(arg.ids) THEN Reverted("ArrayLengthMismatch")
    ELSE ReturnedId(counter, NoEvents,
                    [SetAllowlist(counter, arg) EXCEPT
                         !.owners[counter] = to,
                         !.tokenWalletMapping[counter] = Wallet(counter),
                         !.counter = counter + 1])

\* per-certificate variant, mint(to, allowlistedCertsAddress_,
\* allowlistedClaimIds_, salt)
CertMintCall(to, arg) ==
    IF Len(arg.certs) # Len(arg.ids) THEN Reverted("ArrayLengthMismatch")
    ELSE IF to = ZeroAddress THEN Reverted("ZeroAddress")
    ELSE LET tokenId == counter
         IN ReturnedId(tokenId, NoEvents,
                       [SetAllowlist(tokenId, arg) EXCEPT
                            !.owners[tokenId] = to,
                            !.tokenWalletMapping[tokenId] = Wallet(tokenId),
                            !.counter = counter + 1])

CertMint(to, arg) ==
    /\ variant = "percert"
    /\ counter < MaxTokens
    /\ Apply("mint", CertMintCall(to, arg))

\* per-certificate variant, updateAllowListedCerts(tokenId,
\* allowlistedCertsAddress_, allowlistedClaimIds_)
UpdateAllowListedCertsCall(sender, tokenId, arg) ==
    IF ~Minted(tokenId) THEN Reverted("ERC721: invalid token ID")
    ELSE IF ~TokenOwnerIs(tokenId, sender) THEN Reverted("NotOwner")
    ELSE IF Len(arg.certs) # Len(arg.ids) THEN Reverted("ArrayLengthMismatch")
    ELSE Returned(NoEvents, SetAllowlist(tokenId, arg))

UpdateAllowListedCerts(sender, tokenId, arg) ==
    /\ variant = "percert"
    /\ Apply("updateAllowListedCerts", UpdateAllowListedCertsCall(sender, tokenId, arg))

\* consent entries stored so far, over all token ids
RECURSIVE SumLen(_, _)
SumLen(f, S) ==
    IF S = {} THEN 0
    ELSE LET t == CHOOSE x \in S : TRUE IN Len(f[t]) + SumLen(f, S \ {t})

TotalConsents == SumLen(consentBasedCertsMapping, TokenIds)

\* mutant of ClaimOwnedBy: the ownership check is missing
ClaimOwnedBy_Anyone(claimId_, owner_) == TRUE

\* hypercertMinter.ownerOf(claimId_) == owner_
ClaimOwnedBy(claimId_, owner_) == hypercertOwnerOf[hypercertMinter][claimId_] = owner_

\* _consentForHyperboard(tokenId_, claimId_, owner_), msg.sender being sender
InternalConsent(sender, tokenId_, claimId_, owner_) ==
    IF ~ClaimOwnedBy(claimId_, owner_) THEN Reverted("NotApprovedOrOwner")
    ELSE Returned(<< <<"GotConsent", tokenId_, claimId_, sender>> >>,
                  [Storage EXCEPT !.consentBasedCertsMapping[tokenId_] =
                                       Append(@, claimId_)])

\* consentForHyperboard(tokenId_, claimId_)
ConsentForHyperboardCall(sender, tokenId_, claimId_) ==
    InternalConsent(sender, tokenId_, claimId_, sender)

ConsentForHyperboard(sender, tokenId_, claimId_) ==
    /\ variant = "consent"
    /\ LET out == ConsentForHyperboardCall(sender, tokenId_, claimId_)
       IN /\ out.err = "none" => TotalConsents < MaxConsents
          /\ Apply("consentForHyperboard", out)

\* mutant of Digest: the typed data leaves the token id out
Digest_IgnoresTokenId(tokenId_, claimId_) == <<"ConsentForHyperBoard", 0, claimId_>>

\* the EIP-712 digest of a consent: the typed data holds tokenId_ and claimId_
Digest(tokenId_, claimId_) == <<"ConsentForHyperBoard", tokenId_, claimId_>>

\* the token ids signatures are made for
SignedTokenIds == {0, 1}

\* the signatures (v, r, s) a caller may present: made by an account over
\* a consent digest
Signatures == [by : Accounts,
               digest : {Digest(t, c) : t \in SignedTokenIds, c \in HypercertClaims}]

\* ECDSA.recover(digest, v, r, s)
Recover(digest, sig) == IF sig.digest = digest THEN sig.by ELSE Stranger

\* mutant of SignerMatches: the recovered address is not compared
SignerMatches_Unchecked(recoveredSigner, signer) == TRUE

\* recoveredSigner == signer
SignerMatches(recoveredSigner, signer) == recoveredSigner = signer

\* consentForHyperboardWithSignature(tokenId_, claimId_, signer, r, s, v)
ConsentForHyperboardWithSignatureCall(sender, tokenId_, claimId_, signer, sig) ==
    LET recoveredSigner == Recover(Digest(tokenId_, claimId_), sig)
    IN IF ~SignerMatches(recoveredSigner, signer) THEN Reverted("InvalidSigner")
       ELSE InternalConsent(sender, tokenId_, claimId_, signer)

ConsentForHyperboardWithSignature(sender, tokenId_, claimId_, signer, sig) ==
    /\ variant = "consent"
    /\ LET out == ConsentForHyperboardWithSignatureCall(sender, tokenId_, claimId_,
                                                        signer, sig)
       IN /\ out.err = "none" => TotalConsents < MaxConsents
          /\ Apply("consentForHyperboardWithSignature", out)

InitBoard ==
    /\ HookInit
    /\ table = <<>>
    /\ \E v \in Variants : BoardDeployed(v)

NextBoard ==
    \/ \E to \in Accounts \cup {ZeroAddress}, arg \in BoardInputs : ConsentMint(to, arg)
    \/ \E sender \in Accounts, t \in TokenIds, arg \in BoardInputs :
           UpdateHyperboad(sender, t, arg)
    \/ \E to \in Accounts \cup {ZeroAddress}, arg \in CertInputs : CertMint(to, arg)
    \/ \E sender \in Accounts, t \in TokenIds, arg \in CertInputs :
           UpdateAllowListedCerts(sender, t, arg)
    \/ \E sender \in Accounts, t \in TokenIds, c \in HypercertClaims :
           ConsentForHyperboard(sender, t, c)

\* either contract: its tokens and allowlists, and consent given directly
SpecBoard == InitBoard /\ [][NextBoard]_vars

\* the one board the consent specification mints and updates with
OneBoard == [list |-> <<1>>, metadata |-> "m1"]

InitConsent ==
    /\ HookInit
    /\ table = <<>>
    /\ BoardDeployed("consent")

NextConsent ==
    \/ ConsentMint(Deployer, OneBoard)
    \/ \E sender \in Accounts, t \in TokenIds : UpdateHyperboad(sender, t, OneBoard)
    \/ \E sender \in Accounts, t \in TokenIds, c \in HypercertClaims :
           ConsentForHyperboard(sender, t, c)
    \/ \E sender, signer \in Accounts, t \in TokenIds, c \in HypercertClaims,
          sig \in Signatures :
           ConsentForHyperboardWithSignature(sender, t, c, signer, sig)

\* the consent variant: consent given directly and by signature, over
\* boards that all look alike
SpecConsent == InitConsent /\ [][NextConsent]_vars

(* --------------- the Hyperboard contracts: administration ------------- *)

\* the error of Ownable's onlyOwner
NotTheOwner == "Ownable: caller is not the owner"

\* mutant of OnlyOwner: the modifier is missing
OnlyOwner_Anyone(sender) == TRUE

\* modifier onlyOwner: owner() == _msgSender()
OnlyOwner(sender) == owner = sender

\* the events only the consent variant declares
IfConsent(events) == IF variant = "consent" THEN events ELSE NoEvents

\* setSubgraphEndpoint(endpoint_)
SetSubgraphEndpointCall(sender, endpoint_) ==
    IF ~OnlyOwner(sender) THEN Reverted(NotTheOwner)
    ELSE Returned(IfConsent(<< <<"SubgraphUpdated", endpoint_>> >>),
                  [Storage EXCEPT !.subgraphEndpoint = endpoint_])

SetSubgraphEndpoint(sender, endpoint_) ==
    /\ variant \in Variants
    /\ Apply("setSubgraphEndpoint", SetSubgraphEndpointCall(sender, endpoint_))

\* consent variant, setBaseUri(baseUri_)
SetBaseUriCall(sender, baseUri_) ==
    IF ~OnlyOwner(sender) THEN Reverted(NotTheOwner)
    ELSE Returned(<< <<"BaseUriUpdated", baseUri_>> >>,
                  [Storage EXCEPT !.baseUri = baseUri_])

SetBaseUri(sender, baseUri_) ==
    /\ variant = "consent"
    /\ Apply("setBaseUri", SetBaseUriCall(sender, baseUri_))

\* consent variant, setHypercertContract(hypercertMinter_): the assignment
\* goes from the state variable to the parameter, which is then emitted
SetHypercertContractCall(sender, hypercertMinter_) ==
    IF ~OnlyOwner(sender) THEN Reverted(NotTheOwner)
    ELSE Returned(<< <<"HypercertMinterUpdated", hypercertMinter>> >>, Storage)

SetHypercertContract(sender, hypercertMinter_) ==
    /\ variant = "consent"
    /\ Apply("setHypercertContract", SetHypercertContractCall(sender, hypercertMinter_))

\* per-certificate variant, setWalletImpl(walletImpl_)
SetWalletImplCall(sender, walletImpl_) ==
    IF ~OnlyOwner(sender) THEN Reverted(NotTheOwner)
    ELSE Returned(NoEvents, [Storage EXCEPT !.walletImpl = walletImpl_])

SetWalletImpl(sender, walletImpl_) ==
    /\ variant = "percert"
    /\ Apply("setWalletImpl", SetWalletImplCall(sender, walletImpl_))

\* per-certificate variant, setErc6551Registry(erc6551Registry_)
SetErc6551RegistryCall(sender, erc6551Registry_) ==
    IF ~OnlyOwner(sender) THEN Reverted(NotTheOwner)
    ELSE Returned(NoEvents, [Storage EXCEPT !.erc6551Registry = erc6551Registry_])

SetErc6551Registry(sender, erc6551Registry_) ==
    /\ variant = "percert"
    /\ Apply("setErc6551Registry", SetErc6551RegistryCall(sender, erc6551Registry_))

\* withdrawErc20(token, amount, account): the token's transfer reverts when
\* the contract holds less than amount
WithdrawErc20Call(sender, amount, account) ==
    IF ~OnlyOwner(sender) THEN Reverted(NotTheOwner)
    ELSE IF amount > erc20Held THEN Reverted("ERC20: transfer amount exceeds balance")
    ELSE Returned(IfConsent(<< <<"WithdrawToken", account, "erc20", amount>> >>),
                  [Storage EXCEPT !.erc20Held = @ - amount])

WithdrawErc20(sender, amount, account) ==
    /\ variant \in Variants
    /\ Apply("withdrawErc20", WithdrawErc20Call(sender, amount, account))

\* withdrawEther(amount, account): the call sends nothing when the contract
\* holds less than amount
WithdrawEtherCall(sender, amount, account) ==
    IF ~OnlyOwner(sender) THEN Reverted(NotTheOwner)
    ELSE IF amount > etherHeld
    THEN Reverted(IF variant = "consent" THEN "FailedToSendToken" ELSE "FailedToSendEther")
    ELSE Returned(IfConsent(<< <<"WithdrawToken", account, ZeroAddress, amount>> >>),
                  [Storage EXCEPT !.etherHeld = @ - amount])

WithdrawEther(sender, amount, account) ==
    /\ variant \in Variants
    /\ Apply("withdrawEther", WithdrawEtherCall(sender, amount, account))

\* ether or tokens reach the contract's address by accident
FundsArrive ==
    /\ \/ etherHeld < MaxFunds /\ etherHeld' = etherHeld + 1 /\ UNCHANGED erc20Held
       \/ erc20Held < MaxFunds /\ erc20Held' = erc20Held + 1 /\ UNCHANGED etherHeld
    /\ UNCHANGED <<hookState, envVars, tokenVars, last, mintLog, owner, subgraphEndpoint, baseUri,
                   walletImpl, erc6551Registry, hypercertMinter>>

Amounts == 0..MaxFunds

NextAdmin ==
    \/ \E sender \in Accounts, e \in Endpoints : SetSubgraphEndpoint(sender, e)
    \/ \E sender \in Accounts, b \in BaseUris : SetBaseUri(sender, b)
    \/ \E sender \in Accounts, m \in Minters : SetHypercertContract(sender, m)
    \/ \E sender \in Accounts, w \in WalletImpls : SetWalletImpl(sender, w)
    \/ \E sender \in Accounts, r \in Registries : SetErc6551Registry(sender, r)
    \/ \E sender, account \in Accounts, amount \in Amounts :
           WithdrawErc20(sender, amount, account)
    \/ \E sender, account \in Accounts, amount \in Amounts :
           WithdrawEther(sender, amount, account)
    \/ FundsArrive

\* either contract: its owner-only functions
SpecAdmin == InitBoard /\ [][NextAdmin]_vars

(* ---------------- the Hyperboard contracts: construction -------------- *)

\* no contract yet: every storage slot is zero
Undeployed ==
    /\ variant = "none"
    /\ owner = ZeroAddress
    /\ owners = [t \in TokenIds |-> ZeroAddress]
    /\ tokenURIs = [t \in TokenIds |-> ""]
    /\ allowListedCertsMapping = [t \in TokenIds |-> <<>>]
    /\ certClaimIds = [t \in TokenIds |-> [a \in CertAddresses |-> <<>>]]
    /\ consentBasedCertsMapping = [t \in TokenIds |-> <<>>]
    /\ tokenWalletMapping = [t \in TokenIds |-> ZeroAddress]
    /\ counter = 0
    /\ subgraphEndpoint = ""
    /\ baseUri = ""
    /\ walletImpl = ZeroAddress
    /\ erc6551Registry = ZeroAddress
    /\ hypercertMinter = ZeroAddress
    /\ etherHeld = 0
    /\ erc20Held = 0
    /\ hypercertOwnerOf = [m \in Minters |->
                              IF m = "minterA" THEN (1 :> "alice" @@ 2 :> "bob")
                              ELSE (1 :> "bob" @@ 2 :> "bob")]
    /\ last = [fn |-> "none", err |-> "none", events |-> NoEvents]
    /\ mintLog = <<>>

\* consent variant, constructor(hypercertMinter_, name_, symbol_,
\* subgraphEndpoint_, baseUri_, version), deployed by sender
ConsentConstructorCall(sender, hypercertMinter_, subgraphEndpoint_, baseUri_) ==
    IF hypercertMinter_ = ZeroAddress THEN Reverted("ZeroAddress")
    ELSE Returned(<< <<"HypercertMinterUpdated", hypercertMinter_>>,
                     <<"SubgraphUpdated", subgraphEndpoint_>>,
                     <<"BaseUriUpdated", baseUri_>> >>,
                  [Storage EXCEPT !.owner = sender,
                                  !.hypercertMinter = hypercertMinter_,
                                  !.subgraphEndpoint = subgraphEndpoint_,
                                  !.baseUri = baseUri_])

\* per-certificate variant, constructor(name_, symbol_, subgraphEndpoint_,
\* baseUri_, walletImpl_, erc6551Registry_): the two checks read the state
\* variables walletImpl and erc6551Registry, not the arguments, and
\* __Ownable_init is not called
CertConstructorCall(subgraphEndpoint_, baseUri_, walletImpl_, erc6551Registry_) ==
    IF walletImpl = ZeroAddress THEN Reverted("ZeroAddress")
    ELSE IF erc6551Registry = ZeroAddress THEN Reverted("ZeroAddress")
    ELSE Returned(NoEvents,
                  [Storage EXCEPT !.walletImpl = walletImpl_,
                                  !.erc6551Registry = erc6551Registry_,
                                  !.subgraphEndpoint = subgraphEndpoint_,
                                  !.baseUri = baseUri_])

\* the deployment transaction: the contract exists if the constructor
\* returned, and nothing exists if it reverted
Deploy(v, out) ==
    /\ variant = "none"
    /\ variant' = IF out.err = "none" THEN v ELSE "none"
    /\ Mined("constructor", out)
    /\ UNCHANGED <<hookState, hypercertOwnerOf>>

DeployConsent(sender, hypercertMinter_, subgraphEndpoint_, baseUri_) ==
    Deploy("consent",
           ConsentConstructorCall(sender, hypercertMinter_, subgraphEndpoint_, baseUri_))

DeployCert(subgraphEndpoint_, baseUri_, walletImpl_, erc6551Registry_) ==
    Deploy("percert",
           CertConstructorCall(subgraphEndpoint_, baseUri_, walletImpl_, erc6551Registry_))

InitDeploy ==
    /\ HookInit
    /\ table = <<>>
    /\ Undeployed

NextDeploy ==
    \/ \E e \in Endpoints, b \in BaseUris, w \in WalletImpls \cup {ZeroAddress},
          r \in Registries \cup {ZeroAddress} :
           /\ variant = "none"
           /\ DeployCert(e, b, w, r)
    \/ \E sender \in Accounts, m \in Minters \cup {ZeroAddress}, e \in Endpoints,
          b \in BaseUris :
           /\ variant = "none"
           /\ DeployConsent(sender, m, e, b)
    \/ \E sender \in Accounts, e \in Endpoints :
           variant # "none" /\ SetSubgraphEndpoint(sender, e)
    \/ \E sender \in Accounts, b \in BaseUris : SetBaseUri(sender, b)
    \/ \E sender \in Accounts, m \in Minters : SetHypercertContract(sender, m)
    \/ \E sender, account \in Accounts, amount \in Amounts :
           variant # "none" /\ WithdrawErc20(sender, amount, account)
    \/ \E sender, account \in Accounts, amount \in Amounts :
           variant # "none" /\ WithdrawEther(sender, amount, account)
    \/ variant # "none" /\ FundsArrive

\* a contract is constructed, then administered
SpecDeploy == InitDeploy /\ [][NextDeploy]_vars

\* getDigestForConsent(tokenId_, claimId_): the typed-data hash of the
\* consent type string with tokenId_ and claimId_
GetDigestForConsent(tokenId_, claimId_) == <<"ConsentForHyperBoard", tokenId_, claimId_>>

(* ----------------- the Hyperboard contracts: views ------------------- *)

\* getAllowListedCerts(tokenId), read from store
GetAllowListedCerts(store, tokenId) == store.allowListedCertsMapping[tokenId]

\* per-certificate variant, getAllowListedClaimIds(tokenId, hypercertAddress),
\* read from store
GetAllowListedClaimIds(store, tokenId, hypercertAddress) ==
    store.certClaimIds[tokenId][hypercertAddress]

(* ============================== claims ================================ *)

\* the set of values a sequence holds
Range(f) == {f[i] : i \in DOMAIN f}

\* the truthy ClaimProof values among the verifier results of this invocation
TruthyResults ==
    UNION {Range(results[k].items) : k \in DOMAIN results} \ {Falsy}

\* the invocation passed both guards of initializeWrite
PassedGuards == Len(stepLog) >= 2

\* the mint function was called in this invocation and its arguments stand
Submitted == calls.mint >= 1

\* the errors thrown by the guards of initializeWrite
GuardErrors == {"No address found for current user",
                "No claim ids found for the current user"}

\* C1: an invocation with a connected address and a loaded, empty
\* eligibility list never calls the mint function and never calls onComplete.
C1_EmptyListNeverMints ==
    (PassedGuards /\ candidates = <<>>) => (calls.mint = 0 /\ calls.onComplete = 0)

\* C2: in every invocation onComplete is called exactly once when the
\* awaited receipt has status 1, and never when the receipt has status 0,
\* when submission or waiting throws, or when the workflow aborts before
\* minting.
C2_OnCompleteIffStatusOne ==
    /\ calls.onComplete = IF receipt = <<1>> THEN 1 ELSE 0
    /\ (pc = "resolved" /\ receipt = <<0>>) => calls.onComplete = 0
    /\ thrown \in {"batchMintClaimFractionsFromAllowlists", "wait", "verifyFractionClaim"}
           \cup GuardErrors => calls.onComplete = 0

C2_Witness ==
    pc = "resolved" /\ receipt = <<1>> /\ calls.onComplete = 1 /\ calls.mint = 1

\* C3: txPending is true exactly between the submission of the transaction
\* and its resolution (receipt of either status, or an exception), and false
\* everywhere else: before submission, after the receipt, after an exception
\* and after an abort before minting.
C3_TxPendingWindow ==
    txPending <=> (pc \in {"minting", "waiting"})

C3_Witness ==
    pc = "resolved" /\ thrown = "wait" /\ ~txPending /\ calls.mint = 1

C5_StepOrder ==
    /\ Len(stepLog) <= Len(StepNames)
    /\ \A i \in 1..Len(stepLog) : stepLog[i] = StepNames[i]
    /\ stepLog # <<>> => step = stepLog[Len(stepLog)]
    /\ "waiting" \in Range(stepLog) =>
           /\ calls.mint = 1
           /\ calls.wait = 1
           /\ thrown # "batchMintClaimFractionsFromAllowlists"
    /\ "complete" \in Range(stepLog) =>
           /\ receipt = <<1>>
           /\ calls.confirmations = Confirmations
    /\ receipt = <<1>> => (stepLog = StepNames /\ step = "complete" /\ pc = "resolved")

C5_Witness ==
    /\ pc = "resolved"
    /\ stepLog = StepNames
    /\ candidates # <<>>
    /\ \A k \in DOMAIN results : Falsy \notin Range(results[k].items)

\* C6: the three sequences passed to the mint function have the same
\* length, the number of distinct truthy ClaimProof values among the
\* verifier results; every position holds the id, units and proof of one
\* ClaimProof, every truthy ClaimProof has a position, and falsy results
\* have none.
C6_AlignedBatch ==
    Submitted =>
        /\ Len(claimIDs) = Cardinality(TruthyResults)
        /\ Len(units) = Len(claimIDs)
        /\ Len(proofs) = Len(claimIDs)
        /\ \A i \in 1..Len(claimIDs) :
               \E p \in TruthyResults :
                   /\ claimIDs[i] = p.claimIDContract
                   /\ units[i] = BigInt(p.units)
                   /\ proofs[i] = p.proof
        /\ \A p \in TruthyResults :
               \E i \in 1..Len(claimIDs) :
                   /\ claimIDs[i] = p.claimIDContract
                   /\ units[i] = BigInt(p.units)
                   /\ proofs[i] = p.proof

C6_Witness ==
    /\ pc = "minting"
    /\ Len(claimIDs) = 2
    /\ \E k \in DOMAIN results : results[k] = Single(Falsy)
    /\ units = <<5, 10>>
    /\ claimIDs = <<"c1", "c2">>

\* C7: ClaimProof values with identical (claimIDContract, units, proof)
\* collapse to one entry of the submitted batch wherever they stand in the
\* verifier results, and deduplicating the deduplicated list changes nothing.
C7_ExactDedup ==
    Submitted =>
        /\ \A p \in TruthyResults :
               Cardinality({i \in 1..Len(unique) : IsEqual(unique[i], p)}) = 1
        /\ \A i, j \in 1..Len(claimIDs) :
               (claimIDs[i] = claimIDs[j] /\ units[i] = units[j] /\ proofs[i] = proofs[j])
                   => i = j
        /\ UniqWith(unique) = unique

C7_Witness ==
    /\ pc = "minting"
    /\ LET flat == Flat(results)
       IN /\ Len(flat) = 3
          /\ flat[1] = flat[3]
          /\ flat[1] # flat[2]
          /\ Falsy \notin Range(flat)
    /\ Len(unique) = 2

\* a step taken by write() itself: the only step that starts an invocation
WriteStep ==
    /\ pc \in {"idle", "resolved", "rejected"}
    /\ calls'.showModal = 1
    /\ hookVars' = hookVars

\* C8: write invoked with no connected address, or with the eligibility list
\* not yet loaded, rejects before any verifier call and any mint call, never
\* advances the step to proofs and leaves txPending false.
C8_GuardsReject ==
    [][(WriteStep /\ (address = NoAddress \/ claimIds = Undefined)) =>
           /\ pc' = "rejected"
           /\ thrown' \in GuardErrors
           /\ calls'.verify = 0
           /\ calls'.mint = 0
           /\ "proofs" \notin Range(stepLog')
           /\ step' # "proofs"
           /\ txPending' = FALSE]_vars

C8_Witness ==
    /\ pc = "rejected"
    /\ thrown = "No claim ids found for the current user"
    /\ address # NoAddress
    /\ claimIds = Undefined
    /\ stepLog = <<"initial">>

\* C9: a verifier failure for one claim id (a falsy result or a rejection)
\* does not abort the workflow: it still reaches minting, with a batch that
\* holds every verified claim and leaves out only the failed one.
C9_VerifierFailureIsolated ==
    /\ PassedGuards => pc # "rejected"
    /\ Submitted => Range(unique) = TruthyResults

\* C10: once the minting step is reached write never rejects; a throwing
\* mint call, a throwing wait and a status-0 receipt each give exactly one
\* error notification and leave the step short of complete.
C10_FailuresContained ==
    /\ "minting" \in Range(stepLog) => pc \in {"minting", "waiting", "resolved"}
    /\ (thrown \in {"batchMintClaimFractionsFromAllowlists", "wait"} \/ receipt = <<0>>) =>
           /\ pc = "resolved"
           /\ calls.toastError = 1
           /\ step # "complete"
           /\ "complete" \notin Range(stepLog)

C10_Witness ==
    /\ pc = "resolved"
    /\ thrown = "batchMintClaimFractionsFromAllowlists"
    /\ calls.toastError = 1
    /\ step = "minting"

\* C11: whatever the outcome of the previous invocation, the next write()
\* starts again at step initial, takes the eligibility list as it is at
\* that moment and calls the verifier once for every claim id of it; no
\* proof, batch, receipt or step of the earlier invocation is kept.
C11_RestartsFromScratch ==
    [][(WriteStep /\ pc \in {"resolved", "rejected"}) =>
           /\ prev' = pc
           /\ stepLog'[1] = "initial"
           /\ unique' = <<>> /\ claimIDs' = <<>> /\ units' = <<>> /\ proofs' = <<>>
           /\ receipt' = <<>>
           /\ calls'.mint = 0 /\ calls'.wait = 0 /\ calls'.onComplete = 0
           /\ (address # NoAddress /\ claimIds # Undefined) =>
                  /\ pc' = "proofs"
                  /\ stepLog' = <<"initial", "proofs">>
                  /\ candidates' = claimIds.list
                  /\ calls'.verify = Len(claimIds.list)
                  /\ results' = [k \in 1..Len(claimIds.list) |-> Pending]]_vars

C11_Witness ==
    /\ prev = "rejected"
    /\ pc = "proofs"
    /\ candidates = <<"c1", "c2">>
    /\ calls.verify = 2
    /\ results = <<Pending, Pending>>

\* C18: a failed store read does not fail the query: the query data becomes
\* the loaded, empty list (not undefined), and a write() invoked then passes
\* the guards and proceeds as for zero eligible claims.
C18_StoreErrorIsEmptyList ==
    [][/\ storeError' => claimIds' = Loaded(<<>>)
       /\ (WriteStep /\ storeError) =>
              /\ pc' = "proofs"
              /\ thrown' = "none"
              /\ candidates' = <<>>
              /\ calls'.verify = 0]_vars

C18_Witness ==
    /\ storeError
    /\ claimIds = Loaded(<<>>)
    /\ pc = "proofs"
    /\ candidates = <<>>
    /\ stepLog = <<"initial", "proofs">>

\* C19: with no address connected the eligibility query is disabled and has
\* delivered nothing; with an address connected it can run again at every
\* point of a mint workflow, whatever the workflow is doing.
C19_PollIndependentOfWorkflow ==
    /\ address = NoAddress =>
           (~ENABLED EligibilityQuery /\ claimIds = Undefined /\ ~storeError)
    /\ address # NoAddress => ENABLED EligibilityQuery

C19_Witness ==
    /\ address # NoAddress
    /\ pc = "waiting"
    /\ claimIds # Undefined
    /\ claimIds.list # candidates

\* the claim ids of the table's rows for the connected address that are
\* not hidden
EligibleIds ==
    {table[i].claimId : i \in {j \in DOMAIN table :
         table[j].address = ToLowerCase(address) /\ table[j].hidden = FALSE}}

\* C17: the eligibility query returns exactly the claim ids of the stored
\* rows whose address is the lower-cased wallet address and whose hidden
\* flag is false; no claim id of a hidden row or of another address reaches
\* the verifier or a mint batch.
C17_OnlyVisibleOwnRows ==
    /\ (claimIds # Undefined /\ ~storeError) =>
           /\ Range(claimIds.list) = EligibleIds
           /\ Len(claimIds.list) =
                  Cardinality({j \in DOMAIN table :
                      table[j].address = ToLowerCase(address) /\ ~table[j].hidden})
    /\ claimIds # Undefined => Range(claimIds.list) \subseteq EligibleIds
    /\ (address # NoAddress /\ pc \in {"proofs", "minting"}) =>
           /\ Range(candidates) \subseteq EligibleIds
           /\ Range(claimIDs) \subseteq EligibleIds

C17_Witness ==
    /\ \E i, j \in DOMAIN table :
           /\ table[i] = Row("0xaa", "c1", FALSE)
           /\ table[j] = Row("0xaa", "c2", TRUE)
    /\ pc = "minting"
    /\ candidates = <<"c1">>
    /\ claimIDs = <<"c1">>

\* the mint transactions submitted and not yet resolved: an invocation
\* past the mint call and awaiting tx.wait
InFlight ==
    (IF pc = "waiting" THEN 1 ELSE 0) + (IF bg = "waiting" THEN 1 ELSE 0)

\* C20: with write() invoked only while txPending is false, at most one mint
\* transaction is submitted and unresolved at any time, and txPending is
\* true whenever there is one.
C20_SingleFlight ==
    /\ InFlight <= 1
    /\ InFlight >= 1 => txPending

\* the allowlists and token URIs of every token, as stored in store
Allowlists(store) ==
    <<store.allowListedCertsMapping, store.certClaimIds, store.tokenURIs>>

\* C12: on either variant an allowlist update for a token by any account
\* other than the token's current owner reverts and leaves every token's
\* allowlist and token URI unchanged; a call by the current owner does not
\* revert for want of ownership.
C12_UpdateOwnerGated ==
    /\ variant = "consent" =>
           \A sender \in Accounts, t \in TokenIds, arg \in BoardInputs :
               LET out == UpdateHyperboadCall(sender, t, arg)
               IN IF owners[t] = sender
                  THEN out.err \notin {"NotApprovedOrOwner", "ERC721: invalid token ID"}
                  ELSE out.err # "none" /\ Allowlists(out.store) = Allowlists(Storage)
    /\ variant = "percert" =>
           \A sender \in Accounts, t \in TokenIds, arg \in CertInputs :
               LET out == UpdateAllowListedCertsCall(sender, t, arg)
               IN IF owners[t] = sender
                  THEN out.err \notin {"NotOwner", "ERC721: invalid token ID"}
                  ELSE out.err # "none" /\ Allowlists(out.store) = Allowlists(Storage)

C12_Witness ==
    /\ variant = "percert"
    /\ last.fn = "updateAllowListedCerts" /\ last.err = "NotOwner"
    /\ owners[0] = "alice" /\ owners[1] = "bob"
    /\ allowListedCertsMapping[0] = <<"certA">>
    /\ certClaimIds[0]["certA"] = <<1>>

\* the consent lists of every token id, as stored in store
Consents(store) == store.consentBasedCertsMapping

\* the consent lists with claim id c appended to that of token id t
Appended(t, c) ==
    [consentBasedCertsMapping EXCEPT ![t] = Append(@, c)]

\* what the minter in use reports as the owner of claim id c
ReportedOwner(c) == hypercertOwnerOf[hypercertMinter][c]

\* no call other than the two consent calls changes a consent list
OnlyConsentCallsAppend ==
    /\ \A to \in Accounts \cup {ZeroAddress}, arg \in BoardInputs :
           Consents(ConsentMintCall(to, arg).store) = consentBasedCertsMapping
    /\ \A sender \in Accounts, t \in TokenIds, arg \in BoardInputs :
           Consents(UpdateHyperboadCall(sender, t, arg).store) = consentBasedCertsMapping
    /\ \A sender \in Accounts :
           /\ \A e \in Endpoints :
                  Consents(SetSubgraphEndpointCall(sender, e).store) = consentBasedCertsMapping
           /\ \A b \in BaseUris :
                  Consents(SetBaseUriCall(sender, b).store) = consentBasedCertsMapping
           /\ \A m \in Minters :
                  Consents(SetHypercertContractCall(sender, m).store) = consentBasedCertsMapping
           /\ \A account \in Accounts, amount \in Amounts :
                  /\ Consents(WithdrawErc20Call(sender, amount, account).store)
                         = consentBasedCertsMapping
                  /\ Consents(WithdrawEtherCall(sender, amount, account).store)
                         = consentBasedCertsMapping

\* a consent call either appends the claim id to the token's list, the
\* claim's owner being who, or changes no consent list
AppendsOnlyFor(out, t, c, who) ==
    \/ Consents(out.store) = consentBasedCertsMapping
    \/ /\ Consents(out.store) = Appended(t, c)
       /\ out.err = "none"
       /\ ReportedOwner(c) = who

C14_MismatchedSignerRejected ==
    /\ variant = "consent" =>
           \A sender, signer \in Accounts, t \in TokenIds, c \in HypercertClaims,
              sig \in Signatures :
               Recover(Digest(t, c), sig) # signer =>
                   LET out == ConsentForHyperboardWithSignatureCall(sender, t, c, signer, sig)
                   IN /\ out.err = "InvalidSigner"
                      /\ Consents(out.store) = consentBasedCertsMapping
                      /\ out.events = NoEvents
    /\ last.err = "InvalidSigner" => last.events = NoEvents

C14_Witness ==
    /\ last = [fn |-> "consentForHyperboardWithSignature", err |-> "InvalidSigner",
               events |-> NoEvents]
    /\ consentBasedCertsMapping[0] = <<1>>
    /\ TotalConsents = 1

\* a successful mint stores the token under the id the counter stood at,
\* owned by to, with the allowlist supplied
MintStoresSupplied ==
    /\ variant = "consent" =>
           \A to \in Accounts \cup {ZeroAddress}, arg \in BoardInputs :
               LET out == ConsentMintCall(to, arg)
               IN out.err = "none" =>
                      /\ out.store.owners[counter] = to
                      /\ out.store.allowListedCertsMapping[counter] = arg.list
    /\ variant = "percert" =>
           \A to \in Accounts \cup {ZeroAddress}, arg \in CertInputs :
               LET out == CertMintCall(to, arg)
               IN out.err = "none" =>
                      /\ out.store.owners[counter] = to
                      /\ out.store.allowListedCertsMapping[counter] = arg.certs
                      /\ \A i \in DOMAIN arg.certs :
                             out.store.certClaimIds[counter][arg.certs[i]] = arg.ids[i]

\* C15: after a successful mint on either variant the new token is owned by
\* `to` and its allowlist is the one supplied (certificate addresses and,
\* per address, claim ids in the per-certificate variant); in the consent
\* variant the new token's consent list is empty.
C15_MintedAsSupplied ==
    /\ MintStoresSupplied
    /\ (variant = "consent" /\ last.fn = "mint" /\ last.err = "none") =>
           consentBasedCertsMapping[counter - 1] = <<>>

\* the outcome of an administrative call by sender: by the owner, or
\* reverted by onlyOwner with the storage as it was
OwnerOrReverted(out, sender) ==
    /\ sender # owner => (out.err = NotTheOwner /\ out.store = Storage)
    /\ (out.err = "none" \/ out.store # Storage \/ out.events # NoEvents) => sender = owner

\* C16: the administrative functions of both variants take effect only when
\* called by the contract owner; a call by any other account reverts and
\* changes no contract state.
C16_AdminOwnerOnly ==
    \A sender \in Accounts :
        /\ \A e \in Endpoints : OwnerOrReverted(SetSubgraphEndpointCall(sender, e), sender)
        /\ \A account \in Accounts, amount \in Amounts :
               /\ OwnerOrReverted(WithdrawErc20Call(sender, amount, account), sender)
               /\ OwnerOrReverted(WithdrawEtherCall(sender, amount, account), sender)
        /\ variant = "consent" =>
               /\ \A b \in BaseUris : OwnerOrReverted(SetBaseUriCall(sender, b), sender)
               /\ \A m \in Minters :
                      OwnerOrReverted(SetHypercertContractCall(sender, m), sender)
        /\ variant = "percert" =>
               /\ \A w \in WalletImpls : OwnerOrReverted(SetWalletImplCall(sender, w), sender)
               /\ \A r \in Registries :
                      OwnerOrReverted(SetErc6551RegistryCall(sender, r), sender)

C16_Witness ==
    /\ variant = "consent"
    /\ last = [fn |-> "withdrawEther", err |-> NotTheOwner, events |-> NoEvents]
    /\ etherHeld = 1
    /\ subgraphEndpoint = "e1"

\* C21: in the per-certificate variant, after the token owner's
\* updateAllowListedCerts(tokenId, certs, claimIds) succeeds on a token
\* minted earlier, getAllowListedCerts(tokenId) returns certs and
\* getAllowListedClaimIds(tokenId, certs[i]) returns claimIds[i] for every i.
C21_UpdateStoresWhatWasSupplied ==
    variant = "percert" =>
        \A t \in TokenIds, arg \in CertInputs :
            Minted(t) =>
                LET out == UpdateAllowListedCertsCall(owners[t], t, arg)
                IN out.err = "none" =>
                       /\ GetAllowListedCerts(out.store, t) = arg.certs
                       /\ \A i \in DOMAIN arg.certs :
                              GetAllowListedClaimIds(out.store, t, arg.certs[i]) = arg.ids[i]

\* what the two allowlist views return for token id t, read from store
AllowlistOf(store, t) ==
    <<GetAllowListedCerts(store, t),
      [a \in CertAddresses |-> GetAllowListedClaimIds(store, t, a)]>>

\* C22: in the per-certificate variant an allowlist update for one token
\* changes only that token's allowlist: for every other token id, minted or
\* not, getAllowListedCerts and getAllowListedClaimIds are unchanged, so a
\* token minted later carries only the claim ids supplied to its own mint.
C22_UpdateTouchesOneToken ==
    variant = "percert" =>
        /\ \A sender \in Accounts, t \in TokenIds, arg \in CertInputs :
               LET out == UpdateAllowListedCertsCall(sender, t, arg)
               IN \A other \in TokenIds \ {t} :
                      AllowlistOf(out.store, other) = AllowlistOf(Storage, other)
        /\ (last.fn = "mint" /\ last.err = "none") =>
               \A a \in CertAddresses :
                   a \notin Range(GetAllowListedCerts(Storage, counter - 1)) =>
                       GetAllowListedClaimIds(Storage, counter - 1, a) = <<>>

\* C23: in the consent variant, after the contract owner's
\* setHypercertContract(m) succeeds, hypercertMinter equals m, and consent
\* calls made afterwards check the claim's owner with m.
C23_MinterReplaced ==
    variant = "consent" =>
        \A m \in Minters :
            LET out == SetHypercertContractCall(owner, m)
            IN out.err = "none" =>
                   /\ out.store.hypercertMinter = m
                   /\ \A c \in HypercertClaims :
                          hypercertOwnerOf[out.store.hypercertMinter][c]
                              = hypercertOwnerOf[m][c]

\* C24: the constructor of the per-certificate variant reverts with
\* ZeroAddress exactly when the walletImpl_ or the erc6551Registry_ argument
\* is the zero address; with both non-zero the construction succeeds and
\* walletImpl and erc6551Registry hold the values supplied.
C24_ConstructorChecksArguments ==
    variant = "none" =>
        \A e \in Endpoints, b \in BaseUris, w \in WalletImpls \cup {ZeroAddress},
           r \in Registries \cup {ZeroAddress} :
            LET out == CertConstructorCall(e, b, w, r)
            IN /\ out.err = "ZeroAddress" <=> (w = ZeroAddress \/ r = ZeroAddress)
               /\ (w # ZeroAddress /\ r # ZeroAddress) =>
                      /\ out.err = "none"
                      /\ out.store.walletImpl = w
                      /\ out.store.erc6551Registry = r

\* every GotConsent event among events names the reported owner of its claim
GotConsentNamesOwner(events) ==
    \A i \in DOMAIN events :
        events[i][1] = "GotConsent" => events[i][4] = ReportedOwner(events[i][3])

\* C25: every GotConsent event of the consent variant carries in its owner
\* field the owner of the hypercert claim that gave the consent, for direct
\* consent and for consent by signature submitted by a third party.
C25_GotConsentCarriesClaimOwner ==
    variant = "consent" =>
        /\ \A sender \in Accounts, t \in TokenIds, c \in HypercertClaims :
               GotConsentNamesOwner(ConsentForHyperboardCall(sender, t, c).events)
        /\ \A sender \in Accounts, t \in TokenIds, c \in HypercertClaims,
              signer \in Accounts, sig \in Signatures :
               GotConsentNamesOwner(
                   ConsentForHyperboardWithSignatureCall(sender, t, c, signer, sig).events)
        /\ GotConsentNamesOwner(last.events)

\* C26: a consent signature is bound to its (tokenId, claimId) pair: the
\* digest checked by consentForHyperboardWithSignature equals
\* getDigestForConsent of the same pair, a signature made by the claim owner
\* over that digest is accepted for that pair, and it is rejected with
\* InvalidSigner when presented with any other token id or claim id.
C26_SignatureBoundToPair ==
    variant = "consent" =>
        \A t \in SignedTokenIds, c \in HypercertClaims, sender \in Accounts :
            LET signer == ReportedOwner(c)
                sig == [by |-> signer, digest |-> GetDigestForConsent(t, c)]
                accepted == ConsentForHyperboardWithSignatureCall(sender, t, c, signer, sig)
            IN /\ Digest(t, c) = GetDigestForConsent(t, c)
               /\ accepted.err = "none"
               /\ Consents(accepted.store) = Appended(t, c)
               /\ \A t2 \in TokenIds, c2 \in HypercertClaims :
                      <<t2, c2>> # <<t, c>> =>
                          /\ \A who \in Accounts :
                                 LET out == ConsentForHyperboardWithSignatureCall(
                                                sender, t2, c2, who, sig)
                                 IN /\ out.err = "InvalidSigner"
                                    /\ out.store = Storage
                                    /\ out.events = NoEvents
                          /\ LET out == ConsentForHyperboardWithSignatureCall(
                                            sender, t2, c2, Stranger, sig)
                             IN out.err # "none" /\ out.store = Storage

\* a signature of bob, who owns claim 2, over the digest of (1, 2) was
\* submitted by alice and accepted for token 1, and for no other token
C26_Witness ==
    /\ last = [fn |-> "consentForHyperboardWithSignature", err |-> "none",
               events |-> << <<"GotConsent", 1, 2, "alice">> >>]
    /\ consentBasedCertsMapping[1] = <<2>>
    /\ consentBasedCertsMapping[0] = <<>>

\* a reverted call leaves storage as it was and emits nothing
NothingHappened(out) == out.store = Storage /\ out.events = NoEvents

\* mint of the consent variant reverts with ZeroAddress when to is zero, and
\* for no other reason
ConsentMintReverts ==
    \A to \in Accounts \cup {ZeroAddress}, arg \in BoardInputs :
        LET out == ConsentMintCall(to, arg)
        IN /\ to = ZeroAddress => out.err = "ZeroAddress"
           /\ to # ZeroAddress => out.err = "none"
           /\ out.err # "none" => NothingHappened(out)

\* C27 as stated: mint reverts with ZeroAddress when to is the zero address
\* and, in the per-certificate variant, with ArrayLengthMismatch when the two
\* arrays differ in length; a reverted mint changes nothing.
C27_Original ==
    /\ variant = "consent" => ConsentMintReverts
    /\ variant = "percert" =>
           \A to \in Accounts \cup {ZeroAddress}, arg \in CertInputs :
               LET out == CertMintCall(to, arg)
               IN /\ to = ZeroAddress => out.err = "ZeroAddress"
                  /\ Len(arg.certs) # Len(arg.ids) => out.err = "ArrayLengthMismatch"
                  /\ out.err # "none" => NothingHappened(out)

\* C27: on both variants mint reverts with ZeroAddress when to is the zero
\* address, except that in the per-certificate variant the array lengths
\* are compared first: arrays of different lengths revert with
\* ArrayLengthMismatch whatever to is, and ZeroAddress is the error only
\* when the lengths agree. A reverted mint creates no token, stores no
\* allowlist and does not advance the counter.
C27_MintReverts ==
    /\ variant = "consent" => ConsentMintReverts
    /\ variant = "percert" =>
           \A to \in Accounts \cup {ZeroAddress}, arg \in CertInputs :
               LET out == CertMintCall(to, arg)
               IN /\ Len(arg.certs) # Len(arg.ids) => out.err = "ArrayLengthMismatch"
                  /\ (Len(arg.certs) = Len(arg.ids) /\ to = ZeroAddress) =>
                         out.err = "ZeroAddress"
                  /\ (Len(arg.certs) = Len(arg.ids) /\ to # ZeroAddress) =>
                         out.err = "none"
                  /\ out.err # "none" => NothingHappened(out)

\* after one token was minted, a mint with arrays of different lengths
\* reverted
C27_Witness ==
    /\ variant = "percert"
    /\ last = [fn |-> "mint", err |-> "ArrayLengthMismatch", events |-> NoEvents]
    /\ counter = 1
    /\ ~Minted(1)

\* C28: on both variants token ids are assigned sequentially from 0: the
\* n-th successful mint returned n-1, no two mints returned the same id, and
\* the set of minted token ids is exactly 0 .. counter-1.
C28_SequentialTokenIds ==
    /\ \A n \in DOMAIN mintLog : mintLog[n] = n - 1
    /\ \A i, j \in DOMAIN mintLog : i # j => mintLog[i] # mintLog[j]
    /\ Len(mintLog) = counter
    /\ {t \in TokenIds : Minted(t)} = 0 .. (counter - 1)

\* two mints succeeded, the second being the last call
C28_Witness ==
    /\ mintLog = <<0, 1>>
    /\ counter = 2
    /\ Minted(0) /\ Minted(1)
    /\ last.fn = "mint"

\* C29: in the per-certificate variant getAllowListedClaimIds(tokenId, a) is
\* non-empty only if a is currently in getAllowListedCerts(tokenId): claim
\* ids of a certificate address dropped by a later update do not remain
\* readable.
C29_ClaimIdsOnlyForListedCerts ==
    variant = "percert" =>
        \A t \in TokenIds, a \in CertAddresses :
            GetAllowListedClaimIds(Storage, t, a) # <<>> =>
                a \in Range(GetAllowListedCerts(Storage, t))

\* a consent call for token id t and claim id c leaves the consent lists as
\* they are or appends c to that of t, and leaves every allowlist unchanged
AppendsAtMost(out, t, c) ==
    /\ \/ Consents(out.store) = consentBasedCertsMapping
       \/ Consents(out.store) = Appended(t, c)
    /\ Allowlists(out.store) = Allowlists(Storage)

\* C30: in the consent variant the consent list of a token is append-only
\* and independent of its allowlist: mint, updateHyperboad and the
\* administrative setters leave every consent list unchanged, a consent call
\* for one token leaves every other token's consent list and every allowlist
\* unchanged, and no operation removes or reorders consent entries.
C30_ConsentListAppendOnly ==
    variant = "consent" =>
        /\ OnlyConsentCallsAppend
        /\ \A sender \in Accounts, t \in TokenIds, c \in HypercertClaims :
               /\ AppendsAtMost(ConsentForHyperboardCall(sender, t, c), t, c)
               /\ \A signer \in Accounts, sig \in Signatures :
                      AppendsAtMost(
                          ConsentForHyperboardWithSignatureCall(sender, t, c, signer, sig),
                          t, c)

\* token 0 has two consents and its owner has just set its allowlist again
C30_Witness ==
    /\ variant = "consent"
    /\ Minted(0)
    /\ consentBasedCertsMapping[0] = <<1, 2>>
    /\ last = [fn |-> "updateHyperboad", err |-> "none", events |-> NoEvents]

\* no claim id is listed twice in the consent list of a token
NoConsentTwice ==
    \A t \in TokenIds :
        \A i, j \in DOMAIN consentBasedCertsMapping[t] :
            i # j => consentBasedCertsMapping[t][i] # consentBasedCertsMapping[t][j]

\* only minted tokens have consents
ConsentOnlyForMinted ==
    \A t \in TokenIds : consentBasedCertsMapping[t] # <<>> => Minted(t)

\* C31: in the consent variant, after any sequence of consent calls (direct
\* or by signature, repeated calls and re-submitted signatures included),
\* each claim id appears at most once in consentBasedCertsMapping[tokenId],
\* and only for token ids that have been minted.
C31_ConsentOncePerMintedToken ==
    variant = "consent" => NoConsentTwice /\ ConsentOnlyForMinted

====
